---- MODULE Spec2Model ----
(***************************************************************************)
(* Model of the day/night lighting engine (TimeOfDaySystem) and of the     *)
(* locomotion engine (Player with CameraController) of the glTF viewer.    *)
(*                                                                         *)
(* Numbers.  JavaScript numbers are modelled in fixed point:               *)
(*   - a time of day is an integer number of ticks, TicksPerHour to the    *)
(*     hour (23.9 h = 239 ticks);                                          *)
(*   - a colour is a triple of 8-bit channels; an interpolated colour and  *)
(*     an interpolated preset intensity are kept multiplied by LerpDen, so *)
(*     that the interpolation fractions (t-lo)/2 and (t-21)/3 are exact;   *)
(*   - preset intensities and the sunIntensity multiplier are in tenths;   *)
(*   - a sun coordinate is a pair <<main, ulp>>: main is the value in      *)
(*     units of 1/(TrigScale*RotScale), ulp is the sign of the rounding    *)
(*     residue that IEEE-754 leaves where the real value would be 0        *)
(*     (Math.PI is a double below pi, so Math.sin(Math.PI) is 1.2e-16).    *)
(*   - the player's deltaTime is in tenths of a second, a velocity in      *)
(*     hundredths of a unit per second and a position in thousandths of a  *)
(*     unit; a coordinate is a triple <<a, b, c>> that stands for the real *)
(*     a + b/sqrt(2) + c/sqrt(3), which is closed under the normalisation  *)
(*     of a move direction with one, two or three non-zero components.     *)
(*   - the camera's yaw is in quarter turns and a mouse move's movementX   *)
(*     is the number of quarter turns it makes; the pitch is in            *)
(*     microradians and movementY in pixels of mouseSensitivity each.      *)
(*   - a setTimeout delay and the time left on a pending timer are in      *)
(*     tenths of a second, as is the duration of a glitch; a glitch        *)
(*     intensity, a distortion and a tone mapping exposure are in          *)
(*     hundredths.  The shader's time uniform and the sample count of the  *)
(*     path tracing library are not followed.                              *)
(***************************************************************************)
EXTENDS Integers, Sequences, FiniteSets

\* ------------------------------------------------------------------ scales
SecondsPerHour == 3600
TicksPerHour == SecondsPerHour \div 360
LerpDen == 6 * TicksPerHour
TrigScale == 100 * 100
RotScale == 5 * 5 * 5

Hour(h) == h * TicksPerHour

\* ------------------------------------------------------------------ bounds
MaxTimeBelowZero == 60
MaxTime == 320
MaxHeight == 390      \* highest camera/player y followed, in thousandths
MaxDepth == 10        \* lowest camera/player y followed, below 0
MaxWalk == 60         \* largest distance walked from the start that is followed
MaxTurn == 1          \* largest yaw followed, in quarter turns either way
MaxTimers == 4        \* most timers pending at a time

\* ------------------------------------------------------------------ inputs
TimeInputs == {-10, 0, 50, 60, 70, 90, 110, 120, 150, 170, 180, 190, 210, 239, 240, 270, 310}
SpeedInputs == {0, 10, 3600, -3600}
DeltaInputs == {0, 1, 36}
SunTimeInputs == {0, 60, 120, 180, 200, 240, 270}
SunSpeedInputs == {0, 10}
SunDeltaInputs == {0, 360}
IntensityInputs == {8, 10}
OrbitAngles == {0, 1}
PlayerDeltaInputs == {0, 1}
GroundInputs == {200, 300}
KeyInputs == {"jump", "down"}
ModeInputs == {"first-person", "third-person", "free-camera", "orbit"}
JumpKeyInputs == {"jump"}
JumpModeInputs == {"first-person", "third-person"}
FlyKeyInputs == {"up", "down", "forward", "sprint"}
FlyModeInputs == {"free-camera"}
TurnInputs == {-1, 0, 1}
LookInputs == {-400, 0, 400}
SpeedValueInputs == {15, 30}
CameraSettingsInputs == {[cameraRotation |-> [yaw |-> 0, pitch |-> 0]],
                         [cameraRotation |-> [yaw |-> 1, pitch |-> 3000000]],
                         [playerSpeed |-> 45]}
LightTimeInputs == {60, 120, 200}
DirectIntensityInputs == {5, 30}
DirectColorInputs == {<<255, 255, 255>>, <<255, 0, 0>>}
LightSettingsInputs == {[directIntensity |-> 15],
                        [directIntensity |-> 15, directColor |-> <<0, 0, 255>>]}
LookKeyInputs == {"forward", "up"}
LookModeInputs == {"first-person", "free-camera"}
LookSettingsInputs == {[cameraRotation |-> [yaw |-> 0, pitch |-> 0]],
                       [cameraRotation |-> [yaw |-> 0, pitch |-> 1000000]]}
FollowKeyInputs == {"forward"}
DurationInputs == {2, 5}
GlitchIntensityInputs == {50, 100}
DistortionInputs == {-15, 15}
AutoIntensityInputs == {80, 99}
AutoDurationInputs == {3, 5}
ToneMappingInputs == {"Linear", "ACES", "Cineon", "Reinhard", "Filmic"}
ExposureInputs == {50, 100, 120, 150, 200}
WalkKeyInputs == {"forward", "backward", "left", "right", "sprint"}
WalkSettingsInputs == {[cameraRotation |-> [yaw |-> 0, pitch |-> 0]],
                       [cameraRotation |-> [yaw |-> 1, pitch |-> 0]]}

VARIABLES
    timeOfDay,          \* TimeOfDaySystem.timeOfDay, in ticks
    timeSpeed,          \* TimeOfDaySystem.timeSpeed
    enabled,            \* TimeOfDaySystem.enabled
    sunIntensity,       \* TimeOfDaySystem.sunIntensity, in tenths
    orbitRotation,      \* TimeOfDaySystem.orbitRotation, [x, y, z] angle indices
    directionalLight,   \* [color, intensity, position] of the injected light
    hemisphereLight,    \* [color, groundColor]
    scene,              \* [background, hasFog, fogColor]
    sunMesh,            \* [position, color, visible]
    lastOp,             \* the operation on the lighting called last
    player,             \* the fields of Player
    cameraController,   \* the fields of CameraController
    callLog,            \* the update entry points the last frame called, in order
    postProcessing,     \* the fields of PostProcessingManager, its composer's
                        \* passes and its glitchEffect
    timers,             \* the pending setTimeout callbacks, in the order set
    renderer,           \* [toneMapping, toneMappingExposure] of the WebGLRenderer
    pathTracer          \* the fields of PathTracingRenderer

todVars == <<timeOfDay, timeSpeed, enabled, sunIntensity, orbitRotation,
             directionalLight, hemisphereLight, scene, sunMesh, lastOp>>
vars == <<timeOfDay, timeSpeed, enabled, sunIntensity, orbitRotation,
          directionalLight, hemisphereLight, scene, sunMesh, lastOp,
          player, cameraController, callLog,
          postProcessing, timers, renderer, pathTracer>>
fxVars == <<postProcessing, timers, renderer, pathTracer>>

\* ----------------------------------------------------------------- colours
Rgb(r, g, b) == <<r, g, b>>

\* A colour that was not produced by interpolation, in interpolated units.
Plain(c) == [i \in 1..3 |-> c[i] * LerpDen]

timeColorPresets ==
    [ night     |-> [sky |-> Rgb(0, 0, 0), sun |-> Rgb(64, 96, 255),
                     ambient |-> Rgb(32, 32, 80), fog |-> Rgb(0, 0, 0),
                     sunIntensity |-> 1],
      dawn      |-> [sky |-> Rgb(0, 0, 0), sun |-> Rgb(255, 154, 86),
                     ambient |-> Rgb(255, 140, 105), fog |-> Rgb(0, 0, 0),
                     sunIntensity |-> 6],
      morning   |-> [sky |-> Rgb(0, 0, 0), sun |-> Rgb(255, 250, 205),
                     ambient |-> Rgb(255, 248, 220), fog |-> Rgb(0, 0, 0),
                     sunIntensity |-> 12],
      noon      |-> [sky |-> Rgb(0, 0, 0), sun |-> Rgb(255, 250, 240),
                     ambient |-> Rgb(255, 255, 255), fog |-> Rgb(0, 0, 0),
                     sunIntensity |-> 20],
      afternoon |-> [sky |-> Rgb(0, 0, 0), sun |-> Rgb(255, 215, 0),
                     ambient |-> Rgb(255, 239, 213), fog |-> Rgb(0, 0, 0),
                     sunIntensity |-> 15],
      dusk      |-> [sky |-> Rgb(0, 0, 0), sun |-> Rgb(255, 69, 0),
                     ambient |-> Rgb(255, 127, 80), fog |-> Rgb(0, 0, 0),
                     sunIntensity |-> 5],
      evening   |-> [sky |-> Rgb(0, 0, 0), sun |-> Rgb(65, 105, 225),
                     ambient |-> Rgb(72, 61, 139), fog |-> Rgb(0, 0, 0),
                     sunIntensity |-> 2] ]

\* A preset returned as it is (no interpolation).
PresetColors(p) ==
    [sky |-> Plain(p.sky), sun |-> Plain(p.sun), ambient |-> Plain(p.ambient),
     fog |-> Plain(p.fog), sunIntensity |-> p.sunIntensity * LerpDen]

\* THREE.Color.lerpColors: c1 + (c2 - c1) * alpha, alpha = num/den.
ColorLerp(c1, c2, num, den) ==
    [i \in 1..3 |-> c1[i] * LerpDen + (c2[i] - c1[i]) * num * (LerpDen \div den)]

\* THREE.MathUtils.lerp: (1 - t) * x + t * y, t = num/den.
MathLerp(x, y, num, den) ==
    (den - num) * x * (LerpDen \div den) + num * y * (LerpDen \div den)

lerpColors(preset1, preset2, num, den) ==
    [sky          |-> ColorLerp(preset1.sky, preset2.sky, num, den),
     sun          |-> ColorLerp(preset1.sun, preset2.sun, num, den),
     ambient      |-> ColorLerp(preset1.ambient, preset2.ambient, num, den),
     fog          |-> ColorLerp(preset1.fog, preset2.fog, num, den),
     sunIntensity |-> MathLerp(preset1.sunIntensity, preset2.sunIntensity, num, den)]

\* The nine branches of getColorsForTime, one operator per branch.
NightColors(time) == PresetColors(timeColorPresets.night)
DawnColorsOverThreeHours(time) ==
    lerpColors(timeColorPresets.night, timeColorPresets.dawn, time - Hour(5), Hour(3))
DawnColors(time) ==
    lerpColors(timeColorPresets.night, timeColorPresets.dawn, time - Hour(5), Hour(2))
MorningColors(time) ==
    lerpColors(timeColorPresets.dawn, timeColorPresets.morning, time - Hour(7), Hour(2))
LateMorningColors(time) ==
    lerpColors(timeColorPresets.morning, timeColorPresets.noon, time - Hour(9), Hour(2))
NoonColorsFromAfternoon(time) == PresetColors(timeColorPresets.afternoon)
NoonColors(time) == PresetColors(timeColorPresets.noon)
AfternoonColors(time) ==
    lerpColors(timeColorPresets.noon, timeColorPresets.afternoon, time - Hour(15), Hour(2))
DuskColors(time) ==
    lerpColors(timeColorPresets.afternoon, timeColorPresets.dusk, time - Hour(17), Hour(2))
EveningColors(time) ==
    lerpColors(timeColorPresets.dusk, timeColorPresets.evening, time - Hour(19), Hour(2))
LateNightColorsOverTwoHours(time) ==
    lerpColors(timeColorPresets.evening, timeColorPresets.night, time - Hour(21), Hour(2))
LateNightColors(time) ==
    lerpColors(timeColorPresets.evening, timeColorPresets.night, time - Hour(21), Hour(3))

getColorsForTime(time) ==
    IF time >= Hour(0) /\ time < Hour(5) THEN NightColors(time)
    ELSE IF time >= Hour(5) /\ time < Hour(7) THEN DawnColors(time)
    ELSE IF time >= Hour(7) /\ time < Hour(9) THEN MorningColors(time)
    ELSE IF time >= Hour(9) /\ time < Hour(11) THEN LateMorningColors(time)
    ELSE IF time >= Hour(11) /\ time < Hour(15) THEN NoonColors(time)
    ELSE IF time >= Hour(15) /\ time < Hour(17) THEN AfternoonColors(time)
    ELSE IF time >= Hour(17) /\ time < Hour(19) THEN DuskColors(time)
    ELSE IF time >= Hour(19) /\ time < Hour(21) THEN EveningColors(time)
    ELSE LateNightColors(time)

\* ------------------------------------------------------------ trigonometry
\* sin of 0, 1.5, 3, ..., 90 degrees, times TrigScale, rounded.
SinTable ==
    << 0, 262, 523, 785, 1045, 1305, 1564, 1822, 2079, 2334,
       2588, 2840, 3090, 3338, 3584, 3827, 4067, 4305, 4540, 4772,
       5000, 5225, 5446, 5664, 5878, 6088, 6293, 6494, 6691, 6884,
       7071, 7254, 7431, 7604, 7771, 7934, 8090, 8241, 8387, 8526,
       8660, 8788, 8910, 9026, 9135, 9239, 9336, 9426, 9511, 9588,
       9659, 9724, 9781, 9833, 9877, 9914, 9945, 9969, 9986, 9997,
       10000 >>

Quarter == Hour(6)          \* ticks in a quarter turn of the sun angle

\* Main part of Math.sin(n * Math.PI / (2 * Quarter)).
SinMain(n) ==
    LET m == n % (4 * Quarter)
    IN  IF m <= Quarter THEN SinTable[m + 1]
        ELSE IF m <= 2 * Quarter THEN SinTable[2 * Quarter - m + 1]
        ELSE IF m <= 3 * Quarter THEN 0 - SinTable[m - 2 * Quarter + 1]
        ELSE 0 - SinTable[4 * Quarter - m + 1]

\* Sign of Math.sin(k * Math.PI) for an integer k: k * Math.PI is a double
\* just below k * pi (for k > 0), where the sine has not yet crossed zero.
SinUlp(n) ==
    IF n % (2 * Quarter) # 0 \/ n = 0 THEN 0
    ELSE LET k == n \div (2 * Quarter)
             a == IF k < 0 THEN 0 - k ELSE k
             s == IF a % 2 = 1 THEN 1 ELSE -1
         IN  IF k < 0 THEN 0 - s ELSE s

\* Sign of Math.cos(j * Math.PI / 2) for an odd integer j.
CosUlp(n) ==
    IF n % (2 * Quarter) # Quarter THEN 0
    ELSE LET a == IF n < 0 THEN 0 - n ELSE n
         IN  IF (a \div Quarter) % 4 = 1 THEN 1 ELSE -1

MathSin(n) == <<SinMain(n), SinUlp(n)>>
MathCos(n) == <<SinMain(n + Quarter), CosUlp(n)>>

\* cos and sin of an orbit angle, in fifths: index 0 is 0 rad, index 1 is
\* atan(3/4) rad, index -1 is -atan(3/4) rad.
Cos5(k) == IF k = 0 THEN 5 ELSE 4
Sin5(k) == 3 * k

\* pair arithmetic: an integer factor times a <<main, ulp>> pair, and sums.
Scale(c, p) == <<c * p[1], c * p[2]>>
Plus(p, q) == <<p[1] + q[1], p[2] + q[2]>>
Positive(p) == p[1] > 0 \/ (p[1] = 0 /\ p[2] > 0)

\* ------------------------------------------------------- TimeOfDaySystem
sunDistance == 50

IntensityDen == 10 * 10 * LerpDen      \* units of directionalLight.intensity
PosScale == TrigScale * RotScale       \* units of a sun coordinate
Coord(v) == <<v * PosScale, 0>>
Vec(x, y, z) == [x |-> x, y |-> y, z |-> z]

\* THREE.Matrix4.makeRotationFromEuler, order 'XYZ'; entries times RotScale.
RotationMatrix(rot) ==
    LET a == Cos5(rot.x)  b == Sin5(rot.x)
        c == Cos5(rot.y)  d == Sin5(rot.y)
        e == Cos5(rot.z)  f == Sin5(rot.z)
        ae == a * e  af == a * f  be == b * e  bf == b * f
    IN  [e0 |-> c * e * 5,        e4 |-> 0 - c * f * 5,     e8  |-> d * 25,
         e1 |-> af * 5 + be * d,  e5 |-> ae * 5 - bf * d,   e9  |-> 0 - b * c * 5,
         e2 |-> bf * 5 - ae * d,  e6 |-> be * 5 + af * d,   e10 |-> a * c * 5]

\* THREE.Vector3.applyMatrix4 for a rotation matrix (w = 1).
ApplyMatrix(m, v) ==
    Vec(Plus(Plus(Scale(m.e0, v.x), Scale(m.e4, v.y)), Scale(m.e8, v.z)),
        Plus(Plus(Scale(m.e1, v.x), Scale(m.e5, v.y)), Scale(m.e9, v.z)),
        Plus(Plus(Scale(m.e2, v.x), Scale(m.e6, v.y)), Scale(m.e10, v.z)))

BaseOrbitPointOffPlane(time) ==
    LET sunAngle == time - Hour(6)
    IN  Vec(Scale(sunDistance, MathCos(sunAngle)),
            Scale(sunDistance, MathSin(sunAngle)),
            <<(sunDistance \div 2) * TrigScale, 0>>)

\* Base position: sun in arc across the sky, in the X-Y plane.
BaseOrbitPoint(time) ==
    LET sunAngle == time - Hour(6)
    IN  Vec(Scale(sunDistance, MathCos(sunAngle)),
            Scale(sunDistance, MathSin(sunAngle)),
            <<0, 0>>)

\* The position updateSunPosition computes: the base point under the
\* orbit rotation, in units of 1/PosScale.
SunPosition(time, rot) == ApplyMatrix(RotationMatrix(rot), BaseOrbitPoint(time))

\* updateSunPosition: what it writes to the sun mesh.
SunMeshAt(time, rot) ==
    LET position == SunPosition(time, rot)
    IN  [position |-> position,
         color    |-> getColorsForTime(time).sun,
         visible  |-> Positive(position.y)]

updateLightingUnscaled(time, intensity, rot) ==
    LET colors == getColorsForTime(time)
    IN  /\ scene' = [scene EXCEPT !.background = colors.sky,
                                  !.fogColor = IF scene.hasFog THEN colors.fog ELSE @]
        /\ directionalLight' = [color     |-> colors.sun,
                                intensity |-> colors.sunIntensity * 10,
                                position  |-> SunPosition(time, rot)]
        /\ hemisphereLight' = [color |-> colors.sky, groundColor |-> colors.ambient]
        /\ sunMesh' = SunMeshAt(time, rot)

\* updateLighting: writes the derived colours, intensity and sun position
\* into the scene, the two lights and the sun mesh.
updateLighting(time, intensity, rot) ==
    LET colors == getColorsForTime(time)
    IN  /\ scene' = [scene EXCEPT !.background = colors.sky,
                                  !.fogColor = IF scene.hasFog THEN colors.fog ELSE @]
        /\ directionalLight' = [color     |-> colors.sun,
                                intensity |-> colors.sunIntensity * intensity,
                                position  |-> SunPosition(time, rot)]
        /\ hemisphereLight' = [color |-> colors.sky, groundColor |-> colors.ambient]
        /\ sunMesh' = SunMeshAt(time, rot)

AdvanceNoWrap(time, speed, deltaTime) ==
    time + (deltaTime * speed * TicksPerHour) \div SecondsPerHour

\* The time of day after update(deltaTime) on an enabled system.
Advance(time, speed, deltaTime) ==
    LET t == time + (deltaTime * speed * TicksPerHour) \div SecondsPerHour
    IN  IF t >= Hour(24) THEN t - Hour(24) ELSE t

\* The fixed-point model is exact only when the advance is whole ticks.
Exact(speed, deltaTime) == (deltaTime * speed * TicksPerHour) % SecondsPerHour = 0

\* ---------------------------------------------------------------- numbers
\* <<a, b, c>> is a + b/sqrt(2) + c/sqrt(3).
Num(a) == <<a, 0, 0>>
NAdd(p, q) == <<p[1] + q[1], p[2] + q[2], p[3] + q[3]>>
NScale(k, p) == <<k * p[1], k * p[2], k * p[3]>>
\* 10000 times the value, to the nearest unit: orders two numbers.
NApprox(p) == 10000 * p[1] + 7071 * p[2] + 5774 * p[3]
NLeq(p, q) == p = q \/ NApprox(p) < NApprox(q)
NLess(p, q) == p # q /\ NApprox(p) < NApprox(q)
VAdd(u, v) == Vec(NAdd(u.x, v.x), NAdd(u.y, v.y), NAdd(u.z, v.z))
VScale(k, v) == Vec(NScale(k, v.x), NScale(k, v.y), NScale(k, v.z))

\* ----------------------------------------------------- CameraController
modes == [FIRST_PERSON |-> "first-person", THIRD_PERSON |-> "third-person",
          FREE_CAMERA |-> "free-camera"]
ModeValues == {modes.FIRST_PERSON, modes.THIRD_PERSON, modes.FREE_CAMERA}

\* cos and sin of a yaw given in quarter turns.
YawCos(q) == CASE q % 4 = 0 -> 1 [] q % 4 = 1 -> 0 [] q % 4 = 2 -> -1 [] OTHER -> 0
YawSin(q) == CASE q % 4 = 0 -> 0 [] q % 4 = 1 -> 1 [] q % 4 = 2 -> 0 [] OTHER -> -1

\* A forward vector that rises when the camera looks up.
getForwardVectorPitched(cc) ==
    Vec(0 - YawSin(cc.yaw), IF cc.pitch > 0 THEN 1 ELSE 0, 0 - YawCos(cc.yaw))
\* (0,0,-1) and (1,0,0) rotated about Y by the yaw; integer components.
getForwardVector(cc) == Vec(0 - YawSin(cc.yaw), 0, 0 - YawCos(cc.yaw))
getRightVector(cc) == Vec(YawCos(cc.yaw), 0, 0 - YawSin(cc.yaw))

\* setMode with a guard: third-person and free-camera only through first-person.
setModeResultGuarded(cc, mode) ==
    IF mode \in ModeValues
          /\ (cc.currentMode = modes.FIRST_PERSON \/ mode = modes.FIRST_PERSON)
    THEN [cc EXCEPT !.currentMode = mode] ELSE cc

setModeResult(cc, mode) ==
    IF mode \in ModeValues THEN [cc EXCEPT !.currentMode = mode] ELSE cc

updateFirstPerson(cc, p) ==
    [cc EXCEPT !.camera.position = VAdd(p.position, Vec(Num(0), Num(p.eyeHeight), Num(0))),
               !.camera.rotation = [kind |-> "YXZ", x |-> cc.pitch, y |-> cc.yaw]]

\* A third-person camera that stays on the same side whatever the yaw.
updateThirdPersonFixedSide(cc, p) ==
    LET offset == Vec(Num(0), Num(cc.thirdPersonHeight), Num(cc.thirdPersonDistance))
    IN  [cc EXCEPT !.camera.position = VAdd(p.position, offset),
                   !.camera.rotation =
                       [kind |-> "lookAt",
                        x |-> VAdd(p.position, Vec(Num(0), Num(p.eyeHeight), Num(0))),
                        y |-> 0]]

updateThirdPerson(cc, p) ==
    LET offset == Vec(Num(YawSin(cc.yaw) * cc.thirdPersonDistance),
                      Num(cc.thirdPersonHeight),
                      Num(YawCos(cc.yaw) * cc.thirdPersonDistance))
    IN  [cc EXCEPT !.camera.position = VAdd(p.position, offset),
                   !.camera.rotation =
                       [kind |-> "lookAt",
                        x |-> VAdd(p.position, Vec(Num(0), Num(p.eyeHeight), Num(0))),
                        y |-> 0]]

updateFreeCameraView(cc) ==
    [cc EXCEPT !.camera.rotation = [kind |-> "YXZ", x |-> cc.pitch, y |-> cc.yaw]]

cameraUpdateResult(cc, p) ==
    CASE cc.currentMode = modes.FIRST_PERSON -> updateFirstPerson(cc, p)
      [] cc.currentMode = modes.THIRD_PERSON -> updateThirdPerson(cc, p)
      [] cc.currentMode = modes.FREE_CAMERA -> updateFreeCameraView(cc)

mouseSensitivity == 2000
\* Math.PI / 2 - 0.1, in microradians.
PitchLimit == 1470796

Min(a, b) == IF a < b THEN a ELSE b
Max(a, b) == IF a > b THEN a ELSE b

\* The mousemove listener: nothing without pointer lock.
mousemoveResult(cc, movementX, movementY) ==
    IF ~cc.isPointerLocked THEN cc
    ELSE [cc EXCEPT !.yaw = @ - movementX,
                    !.pitch = Max(0 - PitchLimit,
                                  Min(PitchLimit, @ - movementY * mouseSensitivity))]

\* ----------------------------------------------------------------- Player
jumpForce == 30
gravity == 0 - 100

IVec(x, y, z) == [x |-> x, y |-> y, z |-> z]
IAdd(u, v) == IVec(u.x + v.x, u.y + v.y, u.z + v.z)
ISub(u, v) == IVec(u.x - v.x, u.y - v.y, u.z - v.z)
LengthSq(d) == d.x * d.x + d.y * d.y + d.z * d.z

\* The move direction the directional keys ask for.
KeyDirection(p, cc) ==
    LET forward == getForwardVector(cc)
        right == getRightVector(cc)
        d0 == IVec(0, 0, 0)
        d1 == IF "forward" \in p.keys THEN IAdd(d0, forward) ELSE d0
        d2 == IF "backward" \in p.keys THEN ISub(d1, forward) ELSE d1
        d3 == IF "left" \in p.keys THEN ISub(d2, right) ELSE d2
    IN  IF "right" \in p.keys THEN IAdd(d3, right) ELSE d3

\* The component multiplied by the speed, the direction not normalised.
NormalizedNot(c, n, k) == <<c * k, 0, 0>>

\* Component c of a direction of squared length n, after normalize() (when
\* the length is not 0) and multiplyScalar(k).
Normalized(c, n, k) ==
    CASE n = 0 -> Num(0)
      [] n = 1 -> <<c * k, 0, 0>>
      [] n = 2 -> <<0, c * k, 0>>
      [] n = 3 -> <<0, 0, c * k>>

NormalizedVec(d, k) ==
    Vec(Normalized(d.x, LengthSq(d), k), Normalized(d.y, LengthSq(d), k),
        Normalized(d.z, LengthSq(d), k))

currentSpeed(p) == IF "sprint" \in p.keys THEN p.fastSpeed ELSE p.speed

\* A gravity that pulls upwards.
FallenUpwards(p, deltaTime) ==
    NAdd(p.velocity.y, Num((0 - gravity * deltaTime) \div 10))
\* velocity.y after gravity has acted for deltaTime.
Fallen(p, deltaTime) == NAdd(p.velocity.y, Num((gravity * deltaTime) \div 10))

\* A jump key that does nothing.
JumpsNever(p) == FALSE
\* The condition of a jump.
Jumps(p) == "jump" \in p.keys /\ p.isGrounded

\* updatePlayerMovement without the ground collision of its last lines.
updatePlayerMovementNoCollision(p, cc, deltaTime) ==
    LET moveDirection == NormalizedVec(KeyDirection(p, cc), currentSpeed(p))
        fallen == Fallen(p, deltaTime)
        jumps == Jumps(p)
        vy == IF jumps THEN Num(jumpForce) ELSE fallen
        velocity == Vec(moveDirection.x, vy, moveDirection.z)
    IN  [p EXCEPT !.velocity = velocity,
                  !.position = VAdd(p.position, VScale(deltaTime, velocity)),
                  !.isGrounded = p.isGrounded /\ ~jumps]

updatePlayerMovement(p, cc, deltaTime) ==
    LET moveDirection == NormalizedVec(KeyDirection(p, cc), currentSpeed(p))
        fallen == Fallen(p, deltaTime)
        jumps == Jumps(p)
        vy == IF jumps THEN Num(jumpForce) ELSE fallen
        velocity == Vec(moveDirection.x, vy, moveDirection.z)
        position == VAdd(p.position, VScale(deltaTime, velocity))
        lands == NLeq(position.y, Num(p.groundLevel))
    IN  [p EXCEPT !.velocity = IF lands THEN [velocity EXCEPT !.y = Num(0)] ELSE velocity,
                  !.position = IF lands THEN [position EXCEPT !.y = Num(p.groundLevel)]
                               ELSE position,
                  !.isGrounded = lands \/ (p.isGrounded /\ ~jumps)]

\* updateFreeCamera in which the down key is ignored while up is pressed.
FreeCameraPositionUpWins(p, cc, deltaTime) ==
    LET d == KeyDirection(p, cc)
        moveDirection ==
            IF "up" \in p.keys THEN [d EXCEPT !.y = @ + 1]
            ELSE IF "down" \in p.keys THEN [d EXCEPT !.y = @ - 1] ELSE d
    IN  VAdd(cc.camera.position,
             NormalizedVec(moveDirection, currentSpeed(p) * deltaTime))

\* updateFreeCamera: the camera position after the call.
FreeCameraPosition(p, cc, deltaTime) ==
    LET d == KeyDirection(p, cc)
        up == IF "up" \in p.keys THEN [d EXCEPT !.y = @ + 1] ELSE d
        moveDirection == IF "down" \in p.keys THEN [up EXCEPT !.y = @ - 1] ELSE up
    IN  VAdd(cc.camera.position,
             NormalizedVec(moveDirection, currentSpeed(p) * deltaTime))

\* Player.update with gravity acting on the velocity in free-camera mode too.
playerUpdateResultGravityInFree(p, cc, deltaTime) ==
    LET moved == IF cc.currentMode = modes.FREE_CAMERA
                 THEN [p EXCEPT !.position = FreeCameraPosition(p, cc, deltaTime),
                                !.velocity.y = Fallen(p, deltaTime)]
                 ELSE updatePlayerMovement(p, cc, deltaTime)
    IN  [moved EXCEPT !.mesh = [position |-> moved.position, scale |-> moved.scale,
                                visible |-> cc.currentMode # modes.FIRST_PERSON]]

\* Player.update, on the player: one of the two integrators, then the mesh.
playerUpdateResult(p, cc, deltaTime) ==
    LET moved == IF cc.currentMode = modes.FREE_CAMERA
                 THEN [p EXCEPT !.position = FreeCameraPosition(p, cc, deltaTime)]
                 ELSE updatePlayerMovement(p, cc, deltaTime)
    IN  [moved EXCEPT !.mesh = [position |-> moved.position, scale |-> moved.scale,
                                visible |-> cc.currentMode # modes.FIRST_PERSON]]

\* Player.update, on the camera controller: Free mode moves the camera.
playerUpdateCamera(p, cc, deltaTime) ==
    IF cc.currentMode = modes.FREE_CAMERA
    THEN [cc EXCEPT !.camera.position = FreeCameraPosition(p, cc, deltaTime)]
    ELSE cc

\* setSpeed that leaves fastSpeed as it is.
setSpeedResultSpeedOnly(p, speed) == [p EXCEPT !.speed = speed]
setSpeedResult(p, speed) == [p EXCEPT !.speed = speed, !.fastSpeed = speed * 2]

\* setGroundLevel that puts the player on the new level from above as well.
setGroundLevelResultSnapsAlways(p, level) ==
    [p EXCEPT !.groundLevel = level, !.position.y = Num(level)]
setGroundLevelResult(p, level) ==
    [p EXCEPT !.groundLevel = level,
              !.position.y = IF NLess(@, Num(level)) THEN Num(level) ELSE @]

StartZ == 5000
Followed(position) ==
    /\ NApprox(position.y) <= 10000 * MaxHeight
    /\ NApprox(position.y) >= 0 - 10000 * MaxDepth
    /\ NApprox(position.x) <= 10000 * MaxWalk
    /\ NApprox(position.x) >= 0
    /\ NApprox(position.z) <= 10000 * StartZ
    /\ NApprox(position.z) >= 10000 * (StartZ - MaxWalk)
    /\ \A c \in {position.x, position.y, position.z} :
          \A i \in {2, 3} : c[i] <= MaxWalk /\ c[i] >= 0 - MaxWalk

\* --------------------------------------------------- PostProcessingManager
\* updatePasses that adds the glitch pass before the enhanced pass.
updatePassesGlitchFirst(pp) ==
    LET kept == <<pp.passes[1]>>
        bloom == IF pp.bloomEnabled THEN <<"bloom">> ELSE <<>>
        ssao == IF pp.ssaoEnabled THEN <<"ssao">> ELSE <<>>
        glitch == IF pp.glitchEffect.isActive THEN <<"glitch">> ELSE <<>>
    IN  IF ~pp.enabled
        THEN [pp EXCEPT !.passes = kept]
        ELSE [pp EXCEPT !.passes = kept \o bloom \o ssao \o glitch \o <<"enhanced">>]

\* updatePasses: every pass but the first is removed, and while enabled the
\* passes are added again in the order bloom, SSAO, enhanced, glitch.
updatePasses(pp) ==
    LET kept == <<pp.passes[1]>>
        bloom == IF pp.bloomEnabled THEN <<"bloom">> ELSE <<>>
        ssao == IF pp.ssaoEnabled THEN <<"ssao">> ELSE <<>>
        glitch == IF pp.glitchEffect.isActive THEN <<"glitch">> ELSE <<>>
    IN  IF ~pp.enabled
        THEN [pp EXCEPT !.passes = kept]
        ELSE [pp EXCEPT !.passes = kept \o bloom \o ssao \o <<"enhanced">> \o glitch]

\* The uniforms GlitchEffect.triggerGlitch writes.
glitchTriggered(g, intensity, distortion, distortion2) ==
    [g EXCEPT !.glitchIntensity = intensity, !.distortion = distortion,
              !.distortion2 = distortion2]

\* The callback GlitchEffect.triggerGlitch leaves with setTimeout.
resetUniforms(g) ==
    [g EXCEPT !.glitchIntensity = 0, !.distortion = 0, !.distortion2 = 0]

\* The callback PostProcessingManager.triggerGlitch leaves with setTimeout.
deactivate(pp) ==
    IF ~pp.glitchEffect.autoGlitch
    THEN updatePasses([pp EXCEPT !.glitchEffect.isActive = FALSE])
    ELSE pp

\* GlitchEffect.setAutoGlitch.
setAutoGlitch(g, on) ==
    IF on THEN [g EXCEPT !.autoGlitch = TRUE]
    ELSE [resetUniforms(g) EXCEPT !.autoGlitch = FALSE]

\* setTimeout(callback, delay).
setTimeout(ts, callback, delay) ==
    Append(ts, [callback |-> callback, remaining |-> delay])

\* The timers GlitchEffect.triggerGlitch leaves: none for a duration of 0.
glitchTimers(ts, duration) ==
    IF duration > 0 THEN setTimeout(ts, "resetUniforms", duration) ELSE ts

\* The decay of the glitch intensity in a rendered frame.
decayed(intensity) ==
    IF intensity > 0
    THEN IF (intensity * 98) \div 100 < 1 THEN 0 ELSE (intensity * 98) \div 100
    ELSE intensity

\* PostProcessingManager.render as animate calls it: the states it can leave
\* the manager and the timers in.  Nothing happens unless post-processing is
\* enabled and path tracing is not; with autoGlitch a glitch is triggered at
\* random and the intensity decays.
render(pp, ts, pt) ==
    IF pt.enabled \/ ~pp.enabled \/ ~pp.glitchEffect.autoGlitch
    THEN {<<pp, ts>>}
    ELSE {<<[pp EXCEPT !.glitchEffect.glitchIntensity = decayed(@)], ts>>}
         \cup {<<[pp EXCEPT !.glitchEffect =
                     [glitchTriggered(@, intensity, distortion[1], distortion[2])
                         EXCEPT !.glitchIntensity = decayed(intensity)]],
                 glitchTimers(ts, duration)>> :
                    intensity \in IF Len(ts) < MaxTimers THEN AutoIntensityInputs ELSE {},
                    duration \in AutoDurationInputs,
                    distortion \in DistortionInputs \X DistortionInputs}

\* ----------------------------------------------------- PathTracingRenderer
\* init: the renderer is set up for path tracing and the tracer is created.
init(r) == [r EXCEPT !.toneMapping = "ACES", !.toneMappingExposure = 100]

\* setToneMapping of the viewer: an unknown name selects ACES.
setToneMappingResult(r, mapping) ==
    [r EXCEPT !.toneMapping =
        IF mapping \in {"Linear", "ACES", "Cineon", "Reinhard"} THEN mapping ELSE "ACES"]

restoreRendererSettings(r, pt) ==
    [r EXCEPT !.toneMapping = pt.originalSettings.toneMapping,
              !.toneMappingExposure = pt.originalSettings.toneMappingExposure]

\* PathTracingRenderer.setEnabled: the renderer and the path tracer after it.
setEnabledResult(r, pt, on) ==
    [pathTracer |-> [pt EXCEPT !.enabled = on,
                               !.pathTracer = @ \/ (on /\ ~pt.enabled)],
     renderer |->
         CASE on /\ ~pt.enabled -> IF pt.pathTracer THEN r ELSE init(r)
           [] ~on /\ pt.enabled -> restoreRendererSettings(r, pt)
           [] OTHER -> r]

Init ==
    /\ timeOfDay = Hour(12)
    /\ timeSpeed = 10
    /\ enabled = FALSE
    /\ sunIntensity = 8
    /\ orbitRotation = Vec(0, 0, 0)
    /\ directionalLight = [color |-> Plain(Rgb(255, 255, 255)),
                           intensity |-> 35 * 10 * LerpDen,
                           position |-> Vec(Coord(10), Coord(20), Coord(10))]
    /\ hemisphereLight = [color |-> Plain(Rgb(135, 206, 235)),
                          groundColor |-> Plain(Rgb(84, 84, 84))]
    /\ scene = [background |-> Plain(Rgb(0, 0, 0)), hasFog |-> TRUE,
                fogColor |-> Plain(Rgb(0, 0, 0))]
    /\ sunMesh = [position |-> Vec(Coord(0), Coord(0), Coord(0)),
                  color |-> Plain(Rgb(255, 250, 240)),
                  visible |-> TRUE]
    /\ lastOp = "constructor"
    /\ player = [position |-> Vec(Num(0), Num(0), Num(StartZ)),
                 velocity |-> Vec(Num(0), Num(0), Num(0)),
                 speed |-> 30, fastSpeed |-> 60, isGrounded |-> FALSE,
                 scale |-> 18, eyeHeight |-> 35, groundLevel |-> 300,
                 mesh |-> [position |-> Vec(Num(0), Num(0), Num(0)),
                           scale |-> 1000, visible |-> TRUE],
                 keys |-> {}]
    /\ cameraController =
          [currentMode |-> modes.FIRST_PERSON, yaw |-> 0, pitch |-> 0,
           isPointerLocked |-> FALSE,
           thirdPersonDistance |-> 100, thirdPersonHeight |-> 25,
           camera |-> [position |-> Vec(Num(0), Num(0), Num(0)),
                       rotation |-> [kind |-> "XYZ", x |-> 0, y |-> 0]]]
    /\ callLog = <<>>
    /\ postProcessing =
          [enabled |-> FALSE, bloomEnabled |-> FALSE, ssaoEnabled |-> FALSE,
           passes |-> <<"render">>,
           glitchEffect |-> [isActive |-> FALSE, autoGlitch |-> FALSE,
                             glitchIntensity |-> 0, distortion |-> 0,
                             distortion2 |-> 0]]
    /\ timers = <<>>
    /\ renderer = [toneMapping |-> "ACES", toneMappingExposure |-> 120]
    /\ pathTracer = [enabled |-> FALSE, pathTracer |-> FALSE,
                     originalSettings |-> [toneMapping |-> "ACES",
                                           toneMappingExposure |-> 120]]

update(deltaTime) ==
    /\ Exact(timeSpeed, deltaTime)
    /\ LET t == IF enabled THEN Advance(timeOfDay, timeSpeed, deltaTime) ELSE timeOfDay
       IN  /\ t >= 0 - MaxTimeBelowZero /\ t <= MaxTime
           /\ timeOfDay' = t
           /\ updateLighting(t, sunIntensity, orbitRotation)
    /\ lastOp' = "update"
    /\ UNCHANGED <<timeSpeed, enabled, sunIntensity, orbitRotation>>
    /\ UNCHANGED <<player, cameraController, callLog, fxVars>>

setTime(time) ==
    /\ timeOfDay' = time
    /\ updateLighting(time, sunIntensity, orbitRotation)
    /\ lastOp' = "setTime"
    /\ UNCHANGED <<timeSpeed, enabled, sunIntensity, orbitRotation>>
    /\ UNCHANGED <<player, cameraController, callLog, fxVars>>

setTimeSpeed(speed) ==
    /\ timeSpeed' = speed
    /\ lastOp' = "setTimeSpeed"
    /\ UNCHANGED <<timeOfDay, enabled, sunIntensity, orbitRotation,
                   directionalLight, hemisphereLight, scene, sunMesh>>
    /\ UNCHANGED <<player, cameraController, callLog, fxVars>>

\* setSunIntensity that also hides the sun mesh below full intensity.
setSunIntensityHidesDimSun(intensity) ==
    /\ sunIntensity' = intensity
    /\ LET colors == getColorsForTime(timeOfDay)
       IN  /\ scene' = [scene EXCEPT !.background = colors.sky,
                                     !.fogColor = IF scene.hasFog THEN colors.fog ELSE @]
           /\ directionalLight' = [color     |-> colors.sun,
                                   intensity |-> colors.sunIntensity * intensity,
                                   position  |-> SunPosition(timeOfDay, orbitRotation)]
           /\ hemisphereLight' = [color |-> colors.sky, groundColor |-> colors.ambient]
           /\ sunMesh' = [SunMeshAt(timeOfDay, orbitRotation) EXCEPT
                              !.visible = @ /\ intensity >= 10]
    /\ lastOp' = "setSunIntensity"
    /\ UNCHANGED <<timeOfDay, timeSpeed, enabled, orbitRotation>>
    /\ UNCHANGED <<player, cameraController, callLog, fxVars>>

setSunIntensity(intensity) ==
    /\ sunIntensity' = intensity
    /\ updateLighting(timeOfDay, intensity, orbitRotation)
    /\ lastOp' = "setSunIntensity"
    /\ UNCHANGED <<timeOfDay, timeSpeed, enabled, orbitRotation>>
    /\ UNCHANGED <<player, cameraController, callLog, fxVars>>

setEnabled(en) ==
    /\ enabled' = en
    /\ lastOp' = "setEnabled"
    /\ UNCHANGED <<timeOfDay, timeSpeed, sunIntensity, orbitRotation,
                   directionalLight, hemisphereLight, scene, sunMesh>>
    /\ UNCHANGED <<player, cameraController, callLog, fxVars>>

setOrbit(rot, op) ==
    /\ orbitRotation' = rot
    /\ updateLighting(timeOfDay, sunIntensity, rot)
    /\ lastOp' = op
    /\ UNCHANGED <<timeOfDay, timeSpeed, enabled, sunIntensity>>
    /\ UNCHANGED <<player, cameraController, callLog, fxVars>>

setOrbitPitch(radians) == setOrbit([orbitRotation EXCEPT !.x = radians], "setOrbitPitch")
setOrbitYaw(radians) == setOrbit([orbitRotation EXCEPT !.y = radians], "setOrbitYaw")
setOrbitRoll(radians) == setOrbit([orbitRotation EXCEPT !.z = radians], "setOrbitRoll")
setOrbitRotation(pitch, yaw, roll) == setOrbit(Vec(pitch, yaw, roll), "setOrbitRotation")

\* A frame that advances the time of day before the player and the camera.
animateTimeOfDayFirst(deltaTime) ==
    /\ ~enabled
    /\ Followed(playerUpdateResult(player, cameraController, deltaTime).position)
    /\ timeOfDay' = timeOfDay
    /\ updateLighting(timeOfDay, sunIntensity, orbitRotation)
    /\ player' = playerUpdateResult(player, cameraController, deltaTime)
    /\ cameraController' =
           cameraUpdateResult(playerUpdateCamera(player, cameraController, deltaTime),
                              playerUpdateResult(player, cameraController, deltaTime))
    /\ lastOp' = "update"
    /\ callLog' = <<"TimeOfDaySystem.update", "Player.update",
                    "CameraController.update">>
    /\ \E rendered \in render(postProcessing, timers, pathTracer) :
          postProcessing' = rendered[1] /\ timers' = rendered[2]
    /\ UNCHANGED <<timeSpeed, enabled, sunIntensity, orbitRotation>>
    /\ UNCHANGED <<renderer, pathTracer>>

\* One frame while the time-of-day system is disabled: player.update, then
\* cameraController.update on the updated player, then timeOfDay.update, which
\* leaves the clock alone and recomputes the lighting.
animate(deltaTime) ==
    /\ ~enabled
    /\ Followed(playerUpdateResult(player, cameraController, deltaTime).position)
    /\ player' = playerUpdateResult(player, cameraController, deltaTime)
    /\ cameraController' =
           cameraUpdateResult(playerUpdateCamera(player, cameraController, deltaTime),
                              playerUpdateResult(player, cameraController, deltaTime))
    /\ timeOfDay' = timeOfDay
    /\ updateLighting(timeOfDay, sunIntensity, orbitRotation)
    /\ lastOp' = "update"
    /\ callLog' = <<"Player.update", "CameraController.update",
                    "TimeOfDaySystem.update">>
    /\ \E rendered \in render(postProcessing, timers, pathTracer) :
          postProcessing' = rendered[1] /\ timers' = rendered[2]
    /\ UNCHANGED <<timeSpeed, enabled, sunIntensity, orbitRotation>>
    /\ UNCHANGED <<renderer, pathTracer>>

setMode(mode) ==
    /\ cameraController' = setModeResult(cameraController, mode)
    /\ UNCHANGED <<player, todVars, callLog, fxVars>>

setGroundLevel(level) ==
    /\ player' = setGroundLevelResult(player, level)
    /\ UNCHANGED <<cameraController, todVars, callLog, fxVars>>

setSpeed(speed) ==
    /\ player' = setSpeedResult(player, speed)
    /\ UNCHANGED <<cameraController, todVars, callLog, fxVars>>

mousemove(movementX, movementY) ==
    /\ mousemoveResult(cameraController, movementX, movementY).yaw <= MaxTurn
    /\ mousemoveResult(cameraController, movementX, movementY).yaw >= 0 - MaxTurn
    /\ cameraController' = mousemoveResult(cameraController, movementX, movementY)
    /\ UNCHANGED <<player, todVars, callLog, fxVars>>

pointerlockchange(locked) ==
    /\ cameraController' = [cameraController EXCEPT !.isPointerLocked = locked]
    /\ UNCHANGED <<player, todVars, callLog, fxVars>>

\* applySettings for a settings object that holds some of playerSpeed,
\* cameraRotation, directIntensity and directColor, and nothing else.
applySettings(settings) ==
    /\ player' = IF "playerSpeed" \in DOMAIN settings
                  THEN setSpeedResult(player, settings.playerSpeed) ELSE player
    /\ cameraController' =
          IF "cameraRotation" \in DOMAIN settings
          THEN [cameraController EXCEPT !.yaw = settings.cameraRotation.yaw,
                                        !.pitch = settings.cameraRotation.pitch]
          ELSE cameraController
    /\ directionalLight' =
          [directionalLight EXCEPT
              !.intensity = IF "directIntensity" \in DOMAIN settings
                            THEN settings.directIntensity * 10 * LerpDen ELSE @,
              !.color = IF "directColor" \in DOMAIN settings
                        THEN Plain(settings.directColor) ELSE @]
    /\ lastOp' = IF {"directIntensity", "directColor"} \cap DOMAIN settings # {}
                  THEN "applySettings" ELSE lastOp
    /\ UNCHANGED <<timeOfDay, timeSpeed, enabled, sunIntensity, orbitRotation,
                   hemisphereLight, scene, sunMesh, callLog, fxVars>>

\* The input listener of the direct-intensity slider, value in tenths.
directIntensityInput(value) ==
    /\ directionalLight' = [directionalLight EXCEPT !.intensity = value * 10 * LerpDen]
    /\ lastOp' = "directIntensityInput"
    /\ UNCHANGED <<timeOfDay, timeSpeed, enabled, sunIntensity, orbitRotation,
                   hemisphereLight, scene, sunMesh, player, cameraController, callLog, fxVars>>

\* The input listener of the direct-color picker.
directColorInput(color) ==
    /\ directionalLight' = [directionalLight EXCEPT !.color = Plain(color)]
    /\ lastOp' = "directColorInput"
    /\ UNCHANGED <<timeOfDay, timeSpeed, enabled, sunIntensity, orbitRotation,
                   hemisphereLight, scene, sunMesh, player, cameraController, callLog, fxVars>>

keydown(key) ==
    /\ player' = [player EXCEPT !.keys = @ \cup {key}]
    /\ UNCHANGED <<cameraController, todVars, callLog, fxVars>>

keyup(key) ==
    /\ player' = [player EXCEPT !.keys = @ \ {key}]
    /\ UNCHANGED <<cameraController, todVars, callLog, fxVars>>

\* PostProcessingManager.setEnabled.
postProcessingSetEnabled(on) ==
    /\ postProcessing' = updatePasses([postProcessing EXCEPT !.enabled = on])
    /\ UNCHANGED <<todVars, player, cameraController, callLog, timers, renderer, pathTracer>>

setBloomEnabled(on) ==
    /\ postProcessing' = updatePasses([postProcessing EXCEPT !.bloomEnabled = on])
    /\ UNCHANGED <<todVars, player, cameraController, callLog, timers, renderer, pathTracer>>

setSSAOEnabled(on) ==
    /\ postProcessing' = updatePasses([postProcessing EXCEPT !.ssaoEnabled = on])
    /\ UNCHANGED <<todVars, player, cameraController, callLog, timers, renderer, pathTracer>>

setGlitchEnabled(on) ==
    /\ postProcessing' =
          updatePasses([postProcessing EXCEPT
              !.glitchEffect = setAutoGlitch([@ EXCEPT !.isActive = on], on)])
    /\ UNCHANGED <<todVars, player, cameraController, callLog, timers, renderer, pathTracer>>

\* PostProcessingManager.triggerGlitch: the effect is triggered for twice
\* the duration and a timer is left to deactivate it then.
triggerGlitch(intensity, duration) ==
    /\ Len(timers) + 2 <= MaxTimers
    /\ \E distortion, distortion2 \in DistortionInputs :
          postProcessing' =
              updatePasses([postProcessing EXCEPT
                  !.glitchEffect =
                      [glitchTriggered(@, intensity, distortion, distortion2)
                          EXCEPT !.isActive = TRUE]])
    /\ timers' = setTimeout(glitchTimers(timers, duration * 2), "deactivate", duration * 2)
    /\ UNCHANGED <<todVars, player, cameraController, callLog, renderer, pathTracer>>

\* A tenth of a second passes while no timer is due.
elapse ==
    /\ timers # <<>>
    /\ \A i \in 1..Len(timers) : timers[i].remaining > 0
    /\ timers' = [i \in 1..Len(timers) |-> [timers[i] EXCEPT !.remaining = @ - 1]]
    /\ UNCHANGED <<todVars, player, cameraController, callLog, postProcessing,
                   renderer, pathTracer>>

\* The timer that is due and was set first fires.
fireTimer ==
    \E i \in 1..Len(timers) :
        /\ timers[i].remaining = 0
        /\ \A j \in 1..(i - 1) : timers[j].remaining > 0
        /\ postProcessing' =
              IF timers[i].callback = "resetUniforms"
              THEN [postProcessing EXCEPT !.glitchEffect = resetUniforms(@)]
              ELSE deactivate(postProcessing)
        /\ timers' = [k \in 1..(Len(timers) - 1) |->
                         IF k < i THEN timers[k] ELSE timers[k + 1]]
        /\ UNCHANGED <<todVars, player, cameraController, callLog, renderer, pathTracer>>

\* The change listener of the tone-mapping select.
setToneMapping(mapping) ==
    /\ renderer' = setToneMappingResult(renderer, mapping)
    /\ UNCHANGED <<todVars, player, cameraController, callLog, postProcessing,
                   timers, pathTracer>>

\* The input listener of the exposure slider.
exposureInput(value) ==
    /\ renderer' = [renderer EXCEPT !.toneMappingExposure = value]
    /\ UNCHANGED <<todVars, player, cameraController, callLog, postProcessing,
                   timers, pathTracer>>

\* PathTracingRenderer.setScene: creates the tracer when there is none.
setScene ==
    /\ renderer' = IF pathTracer.pathTracer THEN renderer ELSE init(renderer)
    /\ pathTracer' = [pathTracer EXCEPT !.pathTracer = TRUE]
    /\ UNCHANGED <<todVars, player, cameraController, callLog, postProcessing, timers>>

\* PathTracingRenderer.setEnabled.
pathTracerSetEnabled(on) ==
    /\ pathTracer' = setEnabledResult(renderer, pathTracer, on).pathTracer
    /\ renderer' = setEnabledResult(renderer, pathTracer, on).renderer
    /\ UNCHANGED <<todVars, player, cameraController, callLog, postProcessing, timers>>

\* The clock: the operations on timeOfDay, timeSpeed and enabled.
NextClock ==
    \/ \E deltaTime \in DeltaInputs : update(deltaTime)
    \/ \E time \in TimeInputs : setTime(time)
    \/ \E speed \in SpeedInputs : setTimeSpeed(speed)
    \/ \E en \in BOOLEAN : setEnabled(en)

SpecClock == Init /\ [][NextClock]_vars

\* The sun: the operations that recompute the lighting, on the hour grid.
NextSun ==
    \/ \E deltaTime \in SunDeltaInputs : update(deltaTime)
    \/ \E time \in SunTimeInputs : setTime(time)
    \/ \E speed \in SunSpeedInputs : setTimeSpeed(speed)
    \/ \E en \in BOOLEAN : setEnabled(en)
    \/ \E intensity \in IntensityInputs : setSunIntensity(intensity)
    \/ \E radians \in OrbitAngles : setOrbitPitch(radians)
    \/ \E radians \in OrbitAngles : setOrbitYaw(radians)
    \/ \E radians \in OrbitAngles : setOrbitRoll(radians)
    \/ \E pitch, yaw, roll \in OrbitAngles : setOrbitRotation(pitch, yaw, roll)

SpecSun == Init /\ [][NextSun]_vars

\* The player: frames, key events, ground level and camera mode.
NextPlayer ==
    \/ \E deltaTime \in PlayerDeltaInputs : animate(deltaTime)
    \/ \E mode \in ModeInputs : setMode(mode)
    \/ \E level \in GroundInputs : setGroundLevel(level)
    \/ \E key \in KeyInputs : keydown(key)
    \/ \E key \in KeyInputs : keyup(key)

SpecPlayer == Init /\ [][NextPlayer]_vars

\* Jumping: frames, the jump key, the ground level and the grounded modes.
\* requestAnimationFrame keeps the frames coming, and the clock gives them a
\* positive deltaTime.
NextJump ==
    \/ \E deltaTime \in PlayerDeltaInputs : animate(deltaTime)
    \/ \E key \in JumpKeyInputs : keydown(key)
    \/ \E key \in JumpKeyInputs : keyup(key)
    \/ \E level \in GroundInputs : setGroundLevel(level)
    \/ \E mode \in JumpModeInputs : setMode(mode)

\* What a frame of deltaTime 0.1 s does to the player.
PlayerTick ==
    /\ Followed(playerUpdateResult(player, cameraController, 1).position)
    /\ player' = playerUpdateResult(player, cameraController, 1)

\* ENABLED <<PlayerTick>>_player, as a state predicate.
PlayerTickEnabled ==
    /\ Followed(playerUpdateResult(player, cameraController, 1).position)
    /\ playerUpdateResult(player, cameraController, 1) # player

\* Weak fairness of the frames that change the player.
FairFrames == []<>(~PlayerTickEnabled) \/ []<><<PlayerTick>>_player

SpecJump == Init /\ [][NextJump]_vars /\ FairFrames

\* Flying: the switch to free-camera mode, frames and the keys of the flight.
NextFly ==
    \/ \E deltaTime \in PlayerDeltaInputs : animate(deltaTime)
    \/ \E key \in FlyKeyInputs : keydown(key)
    \/ \E key \in FlyKeyInputs : keyup(key)
    \/ \E mode \in FlyModeInputs : setMode(mode)

SpecFly == Init /\ [][NextFly]_vars

\* The view and the settings: mouse look under pointer lock, the speed
\* setting, a settings load, and the frames that turn the camera.
NextCamera ==
    \/ \E deltaTime \in PlayerDeltaInputs : animate(deltaTime)
    \/ \E movementX \in TurnInputs, movementY \in LookInputs :
          mousemove(movementX, movementY)
    \/ \E locked \in BOOLEAN : pointerlockchange(locked)
    \/ \E speed \in SpeedValueInputs : setSpeed(speed)
    \/ \E settings \in CameraSettingsInputs : applySettings(settings)

SpecCamera == Init /\ [][NextCamera]_vars

\* Walking: frames, the directional keys and sprint, and a settings load
\* that turns the camera.
NextWalk ==
    \/ \E deltaTime \in PlayerDeltaInputs : animate(deltaTime)
    \/ \E key \in WalkKeyInputs : keydown(key)
    \/ \E key \in WalkKeyInputs : keyup(key)
    \/ \E settings \in WalkSettingsInputs : applySettings(settings)

SpecWalk == Init /\ [][NextWalk]_vars

\* The light: the frames and time changes that recompute it, and the light
\* controls and the settings load that write it.
NextLight ==
    \/ \E deltaTime \in SunDeltaInputs : update(deltaTime)
    \/ \E time \in LightTimeInputs : setTime(time)
    \/ \E en \in BOOLEAN : setEnabled(en)
    \/ \E value \in DirectIntensityInputs : directIntensityInput(value)
    \/ \E color \in DirectColorInputs : directColorInput(color)
    \/ \E settings \in LightSettingsInputs : applySettings(settings)

SpecLight == Init /\ [][NextLight]_vars

\* Looking up and down: frames, keys, the two kinds of mode and settings
\* loads that set the pitch.
NextLook ==
    \/ \E deltaTime \in PlayerDeltaInputs : animate(deltaTime)
    \/ \E key \in LookKeyInputs : keydown(key)
    \/ \E key \in LookKeyInputs : keyup(key)
    \/ \E mode \in LookModeInputs : setMode(mode)
    \/ \E settings \in LookSettingsInputs : applySettings(settings)

SpecLook == Init /\ [][NextLook]_vars

\* The camera following the player: frames, the forward key, the three
\* modes and settings loads that turn the camera.
NextFollow ==
    \/ \E deltaTime \in PlayerDeltaInputs : animate(deltaTime)
    \/ \E key \in FollowKeyInputs : keydown(key)
    \/ \E key \in FollowKeyInputs : keyup(key)
    \/ \E mode \in ModeInputs : setMode(mode)
    \/ \E settings \in WalkSettingsInputs : applySettings(settings)

SpecFollow == Init /\ [][NextFollow]_vars

\* The passes: the switches of the post-processing manager, the glitch
\* trigger, the passing of time and the timers.
NextPasses ==
    \/ \E on \in BOOLEAN : postProcessingSetEnabled(on)
    \/ \E on \in BOOLEAN : setBloomEnabled(on)
    \/ \E on \in BOOLEAN : setSSAOEnabled(on)
    \/ \E on \in BOOLEAN : setGlitchEnabled(on)
    \/ \E intensity \in GlitchIntensityInputs, duration \in DurationInputs :
          triggerGlitch(intensity, duration)
    \/ elapse
    \/ fireTimer

SpecPasses == Init /\ [][NextPasses]_vars

\* The glitch trigger with auto-glitch off: triggers, time and timers.
NextTrigger ==
    \/ \E intensity \in GlitchIntensityInputs, duration \in DurationInputs :
          triggerGlitch(intensity, duration)
    \/ elapse
    \/ fireTimer

SpecTrigger == Init /\ [][NextTrigger]_vars

\* Tone mapping: the tone-mapping controls, the path tracer's switch and
\* scene, and the frames.
NextToneMapping ==
    \/ \E mapping \in ToneMappingInputs : setToneMapping(mapping)
    \/ \E value \in ExposureInputs : exposureInput(value)
    \/ \E on \in BOOLEAN : pathTracerSetEnabled(on)
    \/ setScene
    \/ \E deltaTime \in PlayerDeltaInputs : animate(deltaTime)

SpecToneMapping == Init /\ [][NextToneMapping]_vars

\* ------------------------------------------------------------- properties
Recomputing == {"update", "setTime", "setSunIntensity", "setOrbitPitch",
                "setOrbitYaw", "setOrbitRoll", "setOrbitRotation"}

\* Hours the clock is asked to advance by update(deltaTime), in ticks.
Delta(deltaTime) == (deltaTime * timeSpeed * TicksPerHour) \div SecondsPerHour

IsUpdate == \E deltaTime \in DeltaInputs : update(deltaTime)

\* C1: in every reachable state timeOfDay lies in [0,24).
C1_TimeOfDayInRange == timeOfDay >= Hour(0) /\ timeOfDay < Hour(24)

\* C2 (as stated): every update(dt) sets timeOfDay to
\* (old + dt*timeSpeed/3600) reduced modulo 24, so that setTime(23.9);
\* setTimeSpeed(3600); update(1) on the constructed system yields 0.9.
C2_UpdateAdvancesModulo24 ==
    [][\A deltaTime \in DeltaInputs :
          update(deltaTime) =>
              timeOfDay' = (timeOfDay + Delta(deltaTime)) % Hour(24)]_vars

\* C2 (amended): an enabled update(dt) sets timeOfDay to old + dt*timeSpeed/3600,
\* less 24 when that sum is 24 or more; a disabled update leaves timeOfDay
\* as it is.  From 23.9 with timeSpeed 3600, an enabled update(1) yields 0.9.
C2_EnabledUpdateAdvances ==
    [][\A deltaTime \in DeltaInputs :
          update(deltaTime) =>
              /\ enabled /\ timeOfDay + Delta(deltaTime) >= Hour(24)
                    => timeOfDay' = timeOfDay + Delta(deltaTime) - Hour(24)
              /\ enabled /\ timeOfDay + Delta(deltaTime) < Hour(24)
                    => timeOfDay' = timeOfDay + Delta(deltaTime)
              /\ ~enabled => timeOfDay' = timeOfDay
              /\ enabled /\ timeOfDay = 239 /\ timeSpeed = 3600 /\ deltaTime = 1
                    => timeOfDay' = 9]_vars

C2_Witness ==
    lastOp = "update" /\ enabled /\ timeSpeed = 3600 /\ timeOfDay = 9

\* C3: update(dt) leaves timeOfDay unchanged whenever enabled is false or
\* timeSpeed is 0.
C3_UpdateFrozen ==
    [][IsUpdate /\ (~enabled \/ timeSpeed = 0) => timeOfDay' = timeOfDay]_vars

\* The formula of the interval that ends at boundary b, evaluated at b.
EndingAt(b) ==
    CASE b = Hour(5)  -> NightColors(b)
      [] b = Hour(7)  -> DawnColors(b)
      [] b = Hour(9)  -> MorningColors(b)
      [] b = Hour(11) -> LateMorningColors(b)
      [] b = Hour(15) -> NoonColors(b)
      [] b = Hour(17) -> AfternoonColors(b)
      [] b = Hour(19) -> DuskColors(b)
      [] b = Hour(21) -> EveningColors(b)
      [] b = Hour(24) -> LateNightColors(b)

Boundaries == {Hour(5), Hour(7), Hour(9), Hour(11), Hour(15), Hour(17), Hour(19), Hour(21)}

\* The colours and the preset intensity the lights currently show.
Shown ==
    [sky |-> scene.background, sun |-> directionalLight.color,
     ambient |-> hemisphereLight.groundColor, fog |-> scene.fogColor]

Colours(c) == [sky |-> c.sky, sun |-> c.sun, ambient |-> c.ambient, fog |-> c.fog]

\* C4: getColorsForTime is continuous at every interval boundary and across
\* the 24/0 wrap: when the clock stands on a boundary b, the colours and
\* intensity derived for b are those the formula of the interval ending at b
\* gives at b (at 0: those the 21-24 formula gives at 24).
C4_ContinuousAtBoundaries ==
    lastOp \in {"update", "setTime"} =>
        /\ \A b \in Boundaries :
              timeOfDay = b =>
                  /\ getColorsForTime(timeOfDay) = EndingAt(b)
                  /\ Shown = Colours(EndingAt(b))
                  /\ directionalLight.intensity = EndingAt(b).sunIntensity * sunIntensity
        /\ timeOfDay = Hour(0) =>
                  /\ getColorsForTime(timeOfDay) = EndingAt(Hour(24))
                  /\ Shown = Colours(EndingAt(Hour(24)))
                  /\ directionalLight.intensity = EndingAt(Hour(24)).sunIntensity * sunIntensity

C4_Witness ==
    lastOp = "setTime" /\ timeOfDay = Hour(7) /\ directionalLight.color = Plain(Rgb(255, 154, 86))

\* C5: for 11 <= t < 15 getColorsForTime(t) is the noon preset unmodified:
\* sunIntensity 2.0 and the noon sun, ambient, sky and fog colours.
C5_NoonPlateau ==
    (timeOfDay >= Hour(11) /\ timeOfDay < Hour(15)) =>
        /\ getColorsForTime(timeOfDay) =
              [sky |-> Plain(Rgb(0, 0, 0)), sun |-> Plain(Rgb(255, 250, 240)),
               ambient |-> Plain(Rgb(255, 255, 255)), fog |-> Plain(Rgb(0, 0, 0)),
               sunIntensity |-> 20 * LerpDen]
        /\ lastOp \in {"update", "setTime"} =>
              /\ directionalLight.color = Plain(Rgb(255, 250, 240))
              /\ directionalLight.intensity = 20 * LerpDen * sunIntensity

C5_Witness ==
    lastOp = "update" /\ timeOfDay = Hour(15) - 1 /\ directionalLight.intensity = 20 * LerpDen * 8

\* C6: with orbit rotation (0,0,0), after any update or setTime the sun mesh
\* is visible exactly when 6 < timeOfDay < 18.
C6_SunVisibleBetween6And18 ==
    (lastOp \in {"update", "setTime"} /\ orbitRotation = Vec(0, 0, 0)) =>
        (sunMesh.visible <=> (timeOfDay > Hour(6) /\ timeOfDay < Hour(18)))

\* The unrotated base orbit point (cos(a)*sunDistance, sin(a)*sunDistance, 0),
\* a = ((t-6)/12)*pi, in the units of a stored position.
UnrotatedPoint(t) ==
    Vec(Scale(50 * RotScale, MathCos(t - Hour(6))),
        Scale(50 * RotScale, MathSin(t - Hour(6))),
        <<0, 0>>)

C8_LightFollowsClock ==
    lastOp \in Recomputing =>
        /\ directionalLight.intensity = getColorsForTime(timeOfDay).sunIntensity * sunIntensity
        /\ directionalLight.color = getColorsForTime(timeOfDay).sun
        /\ (timeOfDay = Hour(12) /\ sunIntensity = 10) =>
              /\ directionalLight.intensity = 2 * IntensityDen
              /\ directionalLight.color = Plain(Rgb(255, 250, 240))
              /\ orbitRotation = Vec(0, 0, 0) => sunMesh.visible

C8_Witness ==
    /\ lastOp = "update" /\ enabled /\ timeSpeed = 0
    /\ timeOfDay = Hour(12) /\ sunIntensity = 10
    /\ directionalLight.intensity = 2 * IntensityDen
    /\ sunMesh.visible

\* ------------------------------------------------------------------ player
GroundedMode(cc) == cc.currentMode # modes.FREE_CAMERA
AboveGround(p) == NLeq(Num(p.groundLevel), p.position.y)
\* A frame leaves the key states, the mode and the view angles as they are.
KeepsInputs ==
    /\ player'.keys = player.keys
    /\ cameraController'.currentMode = cameraController.currentMode
    /\ cameraController'.yaw = cameraController.yaw
    /\ cameraController'.pitch = cameraController.pitch
\* The step does to the player what Player.update(deltaTime) does in a frame.
PlayerFrame(deltaTime) ==
    /\ KeepsInputs
    /\ player' = playerUpdateResult(player, cameraController, deltaTime)
IsAnimate == KeepsInputs /\ \E deltaTime \in PlayerDeltaInputs : animate(deltaTime)
IsSetGroundLevel == \E level \in GroundInputs : setGroundLevel(level)

\* C9 (as stated): in every reachable state whose camera mode is first-person
\* or third-person, player.position.y >= groundLevel, from the constructed
\* state on.
C9_AboveGroundInGroundedMode ==
    GroundedMode(cameraController) => AboveGround(player)

\* C9 (amended): a step that ends in first-person or third-person mode ends
\* with player.position.y >= groundLevel when it is a frame (Player.update) or
\* a setGroundLevel, or when player.position.y >= groundLevel held before it;
\* the constructed state and the switch out of free-camera mode are not
\* covered until the next frame.
C9_AboveGroundOnceUpdated ==
    [][GroundedMode(cameraController') =>
          \/ AboveGround(player')
          \/ ~(AboveGround(player) \/ IsSetGroundLevel \/ IsAnimate)]_vars

\* A frame has landed the player on a ground level lowered by setGroundLevel.
C9_Witness ==
    /\ GroundedMode(cameraController)
    /\ lastOp = "update"
    /\ player.groundLevel = 200
    /\ player.isGrounded
    /\ player.position.y = Num(player.groundLevel)
    /\ player.mesh.position = player.position

\* C10 (as stated): in every reachable state, isGrounded is true if and only
\* if position.y = groundLevel and velocity.y = 0.
C10_GroundedIffOnGround ==
    player.isGrounded <=> (/\ player.position.y = Num(player.groundLevel)
                           /\ player.velocity.y = Num(0))

\* C11: a frame in a grounded mode that starts with position.y = groundLevel,
\* velocity.y = 0 and isGrounded true, the jump key not pressed, ends with
\* position.y = groundLevel, velocity.y = 0 and isGrounded true, whatever the
\* directional keys and for dt >= 0.
C11_GroundedStaysGrounded ==
    [][(/\ GroundedMode(cameraController)
        /\ player.isGrounded
        /\ player.position.y = Num(player.groundLevel)
        /\ player.velocity.y = Num(0)
        /\ "jump" \notin player.keys
        /\ \E deltaTime \in PlayerDeltaInputs : PlayerFrame(deltaTime))
       => /\ player'.position.y = Num(player'.groundLevel)
          /\ player'.velocity.y = Num(0)
          /\ player'.isGrounded]_vars

\* A frame has walked the grounded player forward and left it on the ground.
C11_Witness ==
    /\ lastOp = "update"
    /\ "forward" \in player.keys
    /\ player.position.z # Num(StartZ)
    /\ player.isGrounded
    /\ player.position.y = Num(player.groundLevel)
    /\ player.velocity.y = Num(0)

\* A frame in a grounded mode that starts on the ground, isGrounded true,
\* with the jump key pressed.
JumpTick(deltaTime) ==
    /\ GroundedMode(cameraController)
    /\ player.isGrounded
    /\ player.position.y = Num(player.groundLevel)
    /\ "jump" \in player.keys
    /\ PlayerFrame(deltaTime)

Jumped == ~player.isGrounded /\ player.velocity.y = Num(jumpForce)

Landed ==
    /\ player.isGrounded
    /\ player.position.y = Num(player.groundLevel)
    /\ player.velocity.y = Num(0)

LandsWithZeroVelocity ==
    [][(~player.isGrounded /\ player'.isGrounded)
          => (/\ player'.position.y = Num(player'.groundLevel)
              /\ player'.velocity.y = Num(0))]_vars

\* C12 (as stated): from a grounded state a tick with jump pressed sets
\* velocity.y = jumpForce and clears isGrounded; as the ticks continue the
\* player eventually is back at groundLevel with isGrounded true, and
\* velocity.y is 0 in the tick in which it lands.
C12_JumpThenLand ==
    /\ [][\A deltaTime \in PlayerDeltaInputs :
             JumpTick(deltaTime) => Jumped']_vars
    /\ LandsWithZeroVelocity
    /\ Jumped ~> Landed

\* C12 (amended): the same, for a jump tick of dt > 0; a jump tick of dt = 0
\* ends on the ground with velocity.y = 0 and isGrounded true.
C12_JumpThenLandPositiveDt ==
    /\ [][\A deltaTime \in PlayerDeltaInputs :
             JumpTick(deltaTime) =>
                 IF deltaTime > 0 THEN Jumped' ELSE Landed']_vars
    /\ LandsWithZeroVelocity
    /\ Jumped ~> Landed

\* The jump tick has lifted the player off the ground.
C12_Witness ==
    /\ lastOp = "update"
    /\ Jumped
    /\ player.position.y = Num(player.groundLevel + jumpForce)

\* --------------------------------------------------------------- walking
NSub(p, q) == <<p[1] - q[1], p[2] - q[2], p[3] - q[3]>>
\* A number with at most one of its three parts: its square is rational.
Pure(p) == Cardinality({i \in 1..3 : p[i] # 0}) <= 1
\* Six times the square of a pure number.
SquareTimes6(p) == 6 * p[1] * p[1] + 3 * p[2] * p[2] + 2 * p[3] * p[3]
\* Six times the squared length of the horizontal displacement of a step.
HorizontalSquareTimes6 ==
    SquareTimes6(NSub(player'.position.x, player.position.x))
        + SquareTimes6(NSub(player'.position.z, player.position.z))
\* The directional keys pressed do not cancel each other.
Moving ==
    \/ ("forward" \in player.keys) # ("backward" \in player.keys)
    \/ ("left" \in player.keys) # ("right" \in player.keys)
SpeedAsked == IF "sprint" \in player.keys THEN player.fastSpeed ELSE player.speed

\* C13: in a grounded mode the horizontal displacement of one tick has the
\* magnitude speed*dt (fastSpeed*dt with sprint) for every combination of
\* the four directional keys that does not cancel out, forward+right as
\* forward alone, and 0 when they cancel out.
C13_DiagonalNotFaster ==
    [][\A deltaTime \in PlayerDeltaInputs :
          (GroundedMode(cameraController) /\ PlayerFrame(deltaTime)) =>
              /\ Pure(NSub(player'.position.x, player.position.x))
              /\ Pure(NSub(player'.position.z, player.position.z))
              /\ HorizontalSquareTimes6 =
                    IF Moving
                    THEN 6 * (SpeedAsked * deltaTime) * (SpeedAsked * deltaTime)
                    ELSE 0]_vars

\* A tick has moved the sprinting player diagonally, forward and right.
C13_Witness ==
    /\ lastOp = "update"
    /\ player.keys = {"forward", "right", "sprint"}
    /\ cameraController.yaw = 0
    /\ player.velocity.x = <<0, player.fastSpeed, 0>>
    /\ player.velocity.z = <<0, 0 - player.fastSpeed, 0>>
    /\ player.position.x = <<0, player.fastSpeed, 0>>

\* C14: in free-camera mode a tick with both up and down pressed leaves
\* camera.position.y as it was, and player.position.y equal to it, whatever
\* the other keys, the speed and dt.
C14_UpAndDownCancel ==
    [][\A deltaTime \in PlayerDeltaInputs :
          (/\ cameraController.currentMode = modes.FREE_CAMERA
           /\ {"up", "down"} \subseteq player.keys
           /\ PlayerFrame(deltaTime))
          => /\ cameraController'.camera.position.y = cameraController.camera.position.y
             /\ player'.position.y = cameraController.camera.position.y]_vars

\* A free-camera tick with up, down and forward pressed has moved the camera
\* forward at its height.
C14_Witness ==
    /\ cameraController.currentMode = modes.FREE_CAMERA
    /\ lastOp = "update"
    /\ player.keys = {"up", "down", "forward"}
    /\ cameraController.camera.position =
          Vec(Num(0), Num(player.groundLevel + player.eyeHeight), Num(StartZ - player.speed))
    /\ player.position = cameraController.camera.position

\* ------------------------------------------------------------ parameters
\* C15: fastSpeed = 2*speed in every reachable state, at construction and
\* after every setSpeed(s), which sets speed = s and fastSpeed = 2*s.
C15_FastSpeedIsTwiceSpeed ==
    /\ player.fastSpeed = 2 * player.speed
    /\ \A s \in SpeedValueInputs :
          ENABLED (setSpeed(s) /\ player'.speed = s /\ player'.fastSpeed = 2 * s)

\* setSpeed(0.15) has acted.
C15_Witness == player.speed = 15 /\ player.fastSpeed = 30

\* C16: currentMode is always one of the three modes; from every mode
\* setMode(m) with m one of the three sets currentMode to m in one step, and
\* setMode with another value leaves currentMode as it is.
C16_ModeMachineWithoutGuards ==
    /\ cameraController.currentMode \in
          {"first-person", "third-person", "free-camera"}
    /\ \A m \in {"first-person", "third-person", "free-camera"} :
          /\ ENABLED (setMode(m) /\ cameraController'.currentMode = m)
          /\ ~ENABLED (setMode(m) /\ cameraController'.currentMode # m)
    /\ \A m \in ModeInputs \ {"first-person", "third-person", "free-camera"} :
          ~ENABLED (setMode(m)
                      /\ cameraController'.currentMode # cameraController.currentMode)

\* setMode has switched to free-camera and a frame has flown there.
C16_Witness ==
    /\ cameraController.currentMode = "free-camera"
    /\ lastOp = "update"
    /\ player.position = cameraController.camera.position

\* C17: in every reachable state the camera pitch lies within
\* [-pi/2 + 0.1, pi/2 - 0.1].
C17_PitchWithinLimits ==
    /\ cameraController.pitch <= PitchLimit
    /\ cameraController.pitch >= 0 - PitchLimit

\* ------------------------------------------------------------- the curve
\* The interpolated windows: from, to (hours), preset at from, preset at to.
Windows ==
    {<<5, 7, "night", "dawn">>, <<7, 9, "dawn", "morning">>,
     <<9, 11, "morning", "noon">>, <<15, 17, "noon", "afternoon">>,
     <<17, 19, "afternoon", "dusk">>, <<19, 21, "dusk", "evening">>,
     <<21, 24, "evening", "night">>}

\* v (in units of 1/LerpDen) is x + (y - x) * (t - lo)/(hi - lo).
Interpolates(v, x, y, lo, hi, t) ==
    v * (hi - lo) = LerpDen * (x * (hi - lo) + (y - x) * (t - lo))

\* C18: for t in an interpolated window [lo, hi), every colour channel and
\* the sunIntensity of getColorsForTime(t) are the linear interpolation with
\* fraction (t - lo)/(hi - lo) between the window's two presets (21-24:
\* evening to night with (t - 21)/3), and update and setTime show them.
C18_LinearBetweenPresets ==
    \A w \in Windows :
        (timeOfDay >= Hour(w[1]) /\ timeOfDay < Hour(w[2])) =>
            LET c == getColorsForTime(timeOfDay)
                from == timeColorPresets[w[3]]
                to == timeColorPresets[w[4]]
            IN  /\ \A k \in {"sky", "sun", "ambient", "fog"} : \A i \in 1..3 :
                      Interpolates(c[k][i], from[k][i], to[k][i],
                                   Hour(w[1]), Hour(w[2]), timeOfDay)
                /\ Interpolates(c.sunIntensity, from.sunIntensity, to.sunIntensity,
                                Hour(w[1]), Hour(w[2]), timeOfDay)
                /\ lastOp \in {"update", "setTime"} =>
                      /\ Shown = Colours(c)
                      /\ directionalLight.intensity = c.sunIntensity * sunIntensity

\* The clock has advanced to 22:30, halfway from evening to night.
C18_Witness ==
    /\ lastOp = "update"
    /\ timeOfDay = Hour(22) + 5
    /\ directionalLight.color = <<3870, 6030, 14400>>
    /\ directionalLight.intensity = 90 * sunIntensity

\* ------------------------------------------------------------- the frame
\* A step that is a frame for the player.
IsFrame == \E deltaTime \in PlayerDeltaInputs : PlayerFrame(deltaTime)

\* In first person the camera stands at the eye of the player as the frame
\* left them.
CameraSeesUpdatedPlayer ==
    cameraController'.currentMode = modes.FIRST_PERSON =>
        cameraController'.camera.position =
            VAdd(player'.position, Vec(Num(0), Num(player'.eyeHeight), Num(0)))

C20_LightWrittenOnlyByEngine ==
    [][(\/ directionalLight'.color # directionalLight.color
        \/ directionalLight'.intensity # directionalLight.intensity)
       => lastOp' \in Recomputing]_vars

\* ------------------------------------------------------ sun and intensity
\* The sun mesh and the light stand where timeOfDay and orbitRotation put them.
SunWhereClockAndOrbitPutIt ==
    /\ sunMesh'.position = SunPosition(timeOfDay', orbitRotation')
    /\ directionalLight'.position = SunPosition(timeOfDay', orbitRotation')
    /\ sunMesh'.visible = Positive(SunPosition(timeOfDay', orbitRotation').y)

\* C21: the sun position and sunMesh.visible are a function of timeOfDay and
\* orbitRotation alone after every recomputation, whatever sunIntensity is,
\* and setSunIntensity changes neither timeOfDay nor orbitRotation nor, on a
\* sun that is up to date, the position or the visibility.
C21_SunIndependentOfIntensity ==
    [][/\ lastOp' \in Recomputing => SunWhereClockAndOrbitPutIt
       /\ lastOp' = "setSunIntensity" =>
             /\ timeOfDay' = timeOfDay /\ orbitRotation' = orbitRotation
             /\ lastOp \in Recomputing =>
                   /\ sunMesh'.position = sunMesh.position
                   /\ sunMesh'.visible = sunMesh.visible
                   /\ directionalLight'.position = directionalLight.position]_vars

\* The intensity was lowered at noon and the sun is still shown.
C21_Witness ==
    /\ lastOp = "setSunIntensity" /\ sunIntensity = 8
    /\ timeOfDay = Hour(12)
    /\ sunMesh.visible
    /\ directionalLight.intensity = 20 * LerpDen * 8

\* ------------------------------------------------------------ free camera
\* Six times the squared length of the displacement of the camera in a step.
CameraSquareTimes6 ==
    SquareTimes6(NSub(cameraController'.camera.position.x, cameraController.camera.position.x))
        + SquareTimes6(NSub(cameraController'.camera.position.y, cameraController.camera.position.y))
        + SquareTimes6(NSub(cameraController'.camera.position.z, cameraController.camera.position.z))
\* The keys pressed ask for a direction that is not zero.
FlyMoving == Moving \/ ("up" \in player.keys) # ("down" \in player.keys)

\* C22: a frame in free-camera mode moves camera.position by a vector of
\* length speed*dt (fastSpeed*dt with sprint; 0 when the keys cancel out),
\* leaves player.velocity and isGrounded as they were, and ends with
\* player.position equal to camera.position, below the ground level or not.
C22_FreeCameraIsAuthoritative ==
    [][\A deltaTime \in PlayerDeltaInputs :
          (cameraController.currentMode = modes.FREE_CAMERA /\ PlayerFrame(deltaTime)) =>
              /\ player'.velocity = player.velocity
              /\ player'.isGrounded = player.isGrounded
              /\ player'.position = cameraController'.camera.position
              /\ \A c \in {"x", "y", "z"} :
                    Pure(NSub(cameraController'.camera.position[c],
                              cameraController.camera.position[c]))
              /\ CameraSquareTimes6 =
                    IF FlyMoving
                    THEN 6 * (SpeedAsked * deltaTime) * (SpeedAsked * deltaTime)
                    ELSE 0]_vars

\* Free-camera frames have taken the camera, and the player with it, below
\* the ground level, the player still flagged as grounded and at rest.
C22_Witness ==
    /\ cameraController.currentMode = modes.FREE_CAMERA
    /\ lastOp = "update"
    /\ "down" \in player.keys
    /\ NLess(player.position.y, Num(player.groundLevel))
    /\ player.position = cameraController.camera.position
    /\ player.isGrounded /\ player.velocity.y = Num(0)

\* ----------------------------------------------------------- ground level
\* C23: setGroundLevel(level) sets groundLevel to level, raises position.y to
\* exactly level when it is below level, leaves position.y as it is when it
\* is at or above level, and never changes position.x or position.z.
C23_SetGroundLevelSnapsUpOnly ==
    [][\A level \in GroundInputs :
          setGroundLevel(level) =>
              /\ player'.groundLevel = level
              /\ player'.position.x = player.position.x
              /\ player'.position.z = player.position.z
              /\ player'.position.y =
                    IF NApprox(player.position.y) < NApprox(Num(level))
                    THEN Num(level) ELSE player.position.y]_vars

\* Before any frame, setGroundLevel has raised the constructed player from
\* height 0 to the level.
C23_Witness ==
    /\ lastOp = "constructor"
    /\ player.groundLevel = 200
    /\ player.position = Vec(Num(0), Num(200), Num(StartZ))
    /\ ~player.isGrounded

\* ---------------------------------------------------------- vertical look
\* Pitch values of a second run, in microradians.
OtherPitches == {0 - PitchLimit, 0, 1000000}

\* C24: a frame moves the player, and in free-camera mode the camera, as it
\* would under any other pitch with the same keys, yaw, dt and mode: position
\* and velocity after the tick do not depend on the pitch, in the grounded
\* modes and in free-camera mode.
C24_PitchDoesNotMove ==
    [][\A deltaTime \in PlayerDeltaInputs :
          PlayerFrame(deltaTime) =>
              \A pitch \in OtherPitches :
                 LET other == [cameraController EXCEPT !.pitch = pitch]
                 IN  /\ playerUpdateResult(player, other, deltaTime).position
                            = player'.position
                     /\ playerUpdateResult(player, other, deltaTime).velocity
                            = player'.velocity
                     /\ playerUpdateCamera(player, other, deltaTime).camera.position
                            = playerUpdateCamera(player, cameraController,
                                                 deltaTime).camera.position]_vars

\* Looking up steeply, the player has walked forward on the ground.
C24_Witness ==
    /\ cameraController.pitch = 1000000
    /\ cameraController.currentMode = modes.FIRST_PERSON
    /\ lastOp = "update"
    /\ "forward" \in player.keys
    /\ player.velocity = Vec(Num(0), Num(0), Num(0 - player.speed))
    /\ player.position = Vec(Num(0), Num(player.groundLevel), Num(StartZ - player.speed))

\* ------------------------------------------------------ camera placement
\* sin and cos of a yaw of q quarter turns.
QuarterTurnSin(q) == <<0, 1, 0, -1>>[(q % 4) + 1]
QuarterTurnCos(q) == <<1, 0, -1, 0>>[(q % 4) + 1]

\* C25: at the end of every frame camera.position is player.position +
\* (0, eyeHeight, 0) in first person, player.position + (sin(yaw) *
\* thirdPersonDistance, thirdPersonHeight, cos(yaw) * thirdPersonDistance) in
\* third person, and in free-camera mode what Player.update left it at, the
\* position of the player.
C25_CameraPlacedByMode ==
    [][\A deltaTime \in PlayerDeltaInputs :
          PlayerFrame(deltaTime) =>
             LET cc == cameraController'
                 at == player'.position
             IN  CASE cc.currentMode = modes.FIRST_PERSON ->
                        /\ cc.camera.position.x = at.x
                        /\ cc.camera.position.y = NAdd(at.y, Num(player'.eyeHeight))
                        /\ cc.camera.position.z = at.z
                   [] cc.currentMode = modes.THIRD_PERSON ->
                        /\ cc.camera.position.x =
                              NAdd(at.x, Num(QuarterTurnSin(cc.yaw) * cc.thirdPersonDistance))
                        /\ cc.camera.position.y = NAdd(at.y, Num(cc.thirdPersonHeight))
                        /\ cc.camera.position.z =
                              NAdd(at.z, Num(QuarterTurnCos(cc.yaw) * cc.thirdPersonDistance))
                   [] cc.currentMode = modes.FREE_CAMERA ->
                        /\ cc.camera.position = at
                        /\ cc.camera.position =
                              playerUpdateCamera(player, cameraController,
                                                 deltaTime).camera.position]_vars

\* A third-person frame with the camera turned a quarter turn: the camera
\* stands thirdPersonDistance to the side of the player.
C25_Witness ==
    /\ cameraController.currentMode = modes.THIRD_PERSON
    /\ cameraController.yaw = 1
    /\ lastOp = "update"
    /\ player.position.y = Num(player.groundLevel)
    /\ cameraController.camera.position =
          VAdd(player.position, Vec(Num(cameraController.thirdPersonDistance),
                                    Num(cameraController.thirdPersonHeight), Num(0)))

\* ---------------------------------------------------------- mid-air jump
\* C26: a frame in a grounded mode sets velocity.y to jumpForce only when it
\* starts with the player standing on the ground, position.y = groundLevel,
\* also after setGroundLevel has lowered the ground under the player.
C26_NoMidAirJump ==
    [][(/\ GroundedMode(cameraController)
        /\ Jumps(player)
        /\ Jumped'
        /\ IsFrame)
       => player.position.y = Num(player.groundLevel)]_vars

\* ------------------------------------------------------- intensity range
\* C27: for every timeOfDay that update and setTime reach, the sunIntensity
\* of getColorsForTime lies between the smallest and the largest preset
\* intensity, 0.1 and 2.0, and the intensity of the directional light is not
\* negative.
C27_IntensityWithinPresets ==
    lastOp \in {"update", "setTime"} =>
        /\ getColorsForTime(timeOfDay).sunIntensity >= 1 * LerpDen
        /\ getColorsForTime(timeOfDay).sunIntensity <= 20 * LerpDen
        /\ sunIntensity >= 0 => directionalLight.intensity >= 0

\* --------------------------------------------------------------- passes
\* The pass is to be in the composer.
Wanted(pass) ==
    CASE pass = "render" -> TRUE
      [] pass = "bloom" -> postProcessing.enabled /\ postProcessing.bloomEnabled
      [] pass = "ssao" -> postProcessing.enabled /\ postProcessing.ssaoEnabled
      [] pass = "enhanced" -> postProcessing.enabled
      [] pass = "glitch" -> postProcessing.enabled /\ postProcessing.glitchEffect.isActive

\* C28: the composer's passes are the render pass alone when disabled and,
\* when enabled, the render pass, the bloom pass iff bloomEnabled, the SSAO
\* pass iff ssaoEnabled, the enhanced pass, and the glitch pass iff
\* glitchEffect.isActive, in that order, none twice.
C28_PassesFollowSwitches ==
    postProcessing.passes =
        SelectSeq(<<"render", "bloom", "ssao", "enhanced", "glitch">>, Wanted)

\* Enabled with bloom and without SSAO, a triggered glitch is running.
C28_Witness ==
    /\ postProcessing.enabled /\ postProcessing.bloomEnabled
    /\ ~postProcessing.ssaoEnabled
    /\ postProcessing.glitchEffect.isActive
    /\ ~postProcessing.glitchEffect.autoGlitch
    /\ Len(timers) = 2
    /\ postProcessing.passes = <<"render", "bloom", "enhanced", "glitch">>

\* -------------------------------------------------------------- glitch
\* The timers of the deactivation, as positions in timers.
Deactivations == {i \in 1..Len(timers) : timers[i].callback = "deactivate"}
\* The deactivation timer the last triggerGlitch has set is still running.
LastTriggerRunning ==
    /\ Deactivations # {}
    /\ \A i \in Deactivations :
          (\A k \in Deactivations : k <= i) => timers[i].remaining > 0

\* C29: with autoGlitch off, for the 2*duration seconds after a triggerGlitch
\* the glitch effect is active and its glitchIntensity is not 0, also when
\* the timers of an earlier triggerGlitch were pending at the call.
C29_GlitchLastsItsDuration ==
    (~postProcessing.glitchEffect.autoGlitch /\ LastTriggerRunning) =>
        /\ postProcessing.glitchEffect.isActive
        /\ postProcessing.glitchEffect.glitchIntensity # 0

\* --------------------------------------------------------- path tracing
\* The renderer after setEnabled(true) followed by setEnabled(false).
EnabledThenDisabled ==
    LET on == setEnabledResult(renderer, pathTracer, TRUE)
    IN  setEnabledResult(on.renderer, on.pathTracer, FALSE).renderer

\* C30: whenever path tracing is off, setEnabled(true) followed by
\* setEnabled(false) leaves renderer.toneMapping and
\* renderer.toneMappingExposure as they were before the enable, after any
\* earlier tone-mapping changes and enable/disable cycles.
C30_EnableDisableRoundTrip ==
    ~pathTracer.enabled =>
        /\ EnabledThenDisabled.toneMapping = renderer.toneMapping
        /\ EnabledThenDisabled.toneMappingExposure = renderer.toneMappingExposure

====
